---- MODULE Spec2Model ----
(***************************************************************************)
(* hlsclient/workers/playlist.py: PlaylistWorker processes contending for  *)
(* the expiring lock of one playlist.  Every worker is one single-threaded *)
(* process; a step of the model is one lock operation (one access to the   *)
(* shared lock file) or one control-flow step of run_forever.  SIGTERM and *)
(* SIGINT (KeyboardInterrupt) are delivered by the environment between two *)
(* steps of a worker; wall-clock time advances by Tick.                    *)
(***************************************************************************)
EXTENDS Integers, FiniteSets, Sequences, TLC

VARIABLES
    pc,          \* pc[w]: where worker w stands in run_forever
    lock,        \* the shared lock: holder and time of the last renewal
    now,         \* wall clock
    death_time,  \* death_time[w], set by setup()
    cause,       \* cause[w]: what made w leave the polling loop
    ops,         \* ops[w]: what w did in its latest tick
    releases,    \* releases[w]: executions of lock.release_if_locking() by w
    signals,     \* signals delivered so far (SIGTERM and SIGINT)
    call,        \* arguments of a call of filter_playlists_for_worker taken alone
    result       \* what that call returned

vars == <<pc, lock, now, death_time, cause, ops, releases, signals, call, result>>

-----------------------------------------------------------------------------
(* Bounds and configuration *)

MaxTime == 2          \* the clock runs from 0 to MaxTime
MaxTTL == 1           \* stands for MAX_TTL_IN_SECONDS, in clock units
LockExpiration == 1   \* config [lock] expiration, in clock units
MaxSignals == 1       \* signals the environment delivers in one behaviour
MaxActions == 2       \* combine actions in a catalog given to the filter alone

Workers == {"w1", "w2"}
Ghost == "ghost"      \* an earlier process of this playlist that died holding the lock
NoHolder == "none"
Holders == Workers \cup {Ghost, NoHolder}

playlist == "X"       \* self.playlist: the same for all contenders of one lock path
\* self.is_variant, given to the constructor: one worker of each kind
is_variant == [w \in Workers |-> w = "w2"]
Streams == {"X", "A", "D"}
\* Streams and combine actions of the catalogs given to the filter alone.
FilterStreams == {"A", "B", "C", "D"}
FilterRules == {[output |-> "X", input |-> <<"A", "D">>],
                [output |-> "X", input |-> <<"C", "A", "C">>],
                [output |-> "Y", input |-> <<"B">>]}

-----------------------------------------------------------------------------
(* The lock: ExpiringLinkLockFile, one operation per definition *)

Free == [holder |-> NoHolder, renewed |-> 0]

is_locked(l) == l.holder # NoHolder

i_am_locking(l, w) == l.holder = w

expired(l, t) == t - l.renewed > LockExpiration

acquired(w, t) == [holder |-> w, renewed |-> t]

update_lock(l, t) == [l EXCEPT !.renewed = t]

break_lock(l) == Free

\* A release that removes the lock whoever holds it.
release_always(l, w) == Free

release_if_locking(l, w) == IF i_am_locking(l, w) THEN Free ELSE l

-----------------------------------------------------------------------------
(* run(): discovery and filter_playlists_for_worker *)

\* What discover_playlists may return: the streams present, and the list of
\* combine actions, each with an output and a list of inputs.
Rules == {[output |-> "X", input |-> <<"A", "D">>], [output |-> "Y", input |-> <<"A">>]}
Catalogs == [streams : SUBSET Streams,
             actions : {<<>>} \cup {<<r>> : r \in Rules}]

get_actions(playlists) == playlists.actions

\* itertools.chain(*my_inputs): the lists of my_inputs one after the other.
RECURSIVE chain(_)
chain(lists) ==
    IF lists = <<>> THEN <<>> ELSE Head(lists) \o chain(Tail(lists))

\* The keys of the dict that a comprehension builds from a list of keys.
Keys(list) == {list[i] : i \in DOMAIN list}

\* Line 76 without the test "s in playlists['streams']".
filter_playlists_unfiltered(variant, playlists) ==
    IF variant
    THEN LET IsMine(action) == action.output = playlist
             my_combine_actions == SelectSeq(get_actions(playlists), IsMine)
             my_inputs == [i \in DOMAIN my_combine_actions |-> my_combine_actions[i].input]
         IN  [streams |-> Keys(chain(my_inputs))]
    ELSE IF playlist \in playlists.streams
         THEN [streams |-> {playlist}]
         ELSE [KeyError |-> playlist]

\* The dict returned at line 79, given by its keys (the value of a key is the
\* catalog's entry), or [KeyError |-> s] when the comprehension looks up a
\* stream s that playlists['streams'] does not hold.
filter_playlists_for_worker(variant, playlists) ==
    IF variant
    THEN LET IsMine(action) == action.output = playlist
             IsPresent(s) == s \in playlists.streams
             my_combine_actions == SelectSeq(get_actions(playlists), IsMine)
             my_inputs == [i \in DOMAIN my_combine_actions |-> my_combine_actions[i].input]
             streams == SelectSeq(chain(my_inputs), IsPresent)
         IN  [streams |-> Keys(streams)]
    ELSE IF playlist \in playlists.streams
         THEN [streams |-> {playlist}]
         ELSE [KeyError |-> playlist]

\* Python's "not d" for a dict: true of the dict without keys only.
NotDict(d) == DOMAIN d = {}

\* None of the worker's streams is in the catalog: the lookup of the worker's
\* own key fails, or no input of its combine actions is left.
Unavailable(worker_playlists) ==
    IF "KeyError" \in DOMAIN worker_playlists THEN TRUE
    ELSE worker_playlists.streams = {}

\* The state of the variables call and result outside a call taken alone.
NoCall == [variant |-> FALSE, playlists |-> [streams |-> {}, actions |-> <<>>]]
NoResult == [pending |-> TRUE]

-----------------------------------------------------------------------------
(* run_forever: the except clauses of lines 46-52 *)

Exceptions == {"LockTimeout", "Exception", "KeyboardInterrupt", "SystemExit"}

\* Line 48 as a bare "except:", which takes SystemExit too.
HandlerBareExcept(e) ==
    IF e = "KeyboardInterrupt" THEN "break" ELSE "continue"

\* Line 46 leaving the loop on LockTimeout.
HandlerTimeoutBreaks(e) ==
    CASE e \in {"LockTimeout", "KeyboardInterrupt"} -> "break"
      [] e = "Exception" -> "continue"
      [] OTHER -> "propagate"

\* run_forever without the catch-all clause of line 48.
HandlerNoCatchAll(e) ==
    CASE e = "LockTimeout" -> "continue"
      [] e = "KeyboardInterrupt" -> "break"
      [] OTHER -> "propagate"

\* The clause that takes an exception raised inside the try block, or
\* "propagate" when no clause matches it.
Handler(e) ==
    CASE e = "LockTimeout" -> "continue"
      [] e = "Exception" -> "continue"
      [] e = "KeyboardInterrupt" -> "break"
      [] OTHER -> "propagate"

\* Positions inside the try block of lines 44-45.
TryPcs == {"oir_locked", "oir_iam", "oir_expired", "oir_break",
           "cr_locked", "cr_acquire", "cr_iam", "update", "run"}
\* Positions of the loop outside the try block: the while test and the sleep.
LoopPcs == {"loop", "sleep"}
\* Positions of stop(), entered from inside (in) or outside (out) the try block.
StopPcs == {"stop_in", "stop_out"}
DeadPcs == {"terminated", "unhandled"}
Pcs == {"init", "exit_in", "exit_out"} \cup TryPcs \cup LoopPcs
           \cup StopPcs \cup DeadPcs

Causes == {"none", "ttl", "abdicate", "unavailable", "sigterm", "interrupt"}
OpNames == {"break", "acquire", "timeout", "update", "run", "error",
            "absent"}

Running(w) == pc[w] = "run"
Dead(w) == pc[w] \in DeadPcs

-----------------------------------------------------------------------------
Init ==
    /\ pc = [w \in Workers |-> "init"]
    /\ lock \in {Free, acquired(Ghost, 0)}
    /\ now = 0
    /\ death_time = [w \in Workers |-> 0]
    /\ cause = [w \in Workers |-> "none"]
    /\ ops = [w \in Workers |-> {}]
    /\ releases = [w \in Workers |-> 0]
    /\ signals = 0
    /\ call = NoCall
    /\ result = NoResult

\* Time passes.
Tick ==
    /\ now < MaxTime
    /\ now' = now + 1
    /\ UNCHANGED <<pc, lock, death_time, cause, ops, releases, signals, call, result>>

\* setup() and the registration of the SIGTERM handler, lines 41-42.
Setup(w) ==
    /\ pc[w] = "init"
    /\ \E ttl \in 1..MaxTTL : death_time' = [death_time EXCEPT ![w] = now + ttl]
    /\ pc' = [pc EXCEPT ![w] = "loop"]
    /\ UNCHANGED <<lock, now, cause, ops, releases, signals, call, result>>

\* Line 82 with <= for <.
should_run_late(t, d) == t <= d

\* should_run(now, death_time), line 82.
should_run(t, d) == t < d

\* The while test of line 43: a new tick, or the end of the loop and stop() (line 54).
LoopTest(w) ==
    /\ pc[w] = "loop"
    /\ IF should_run(now, death_time[w])
       THEN /\ pc' = [pc EXCEPT ![w] = "oir_locked"]
            /\ ops' = [ops EXCEPT ![w] = {}]
            /\ cause' = cause
       ELSE /\ pc' = [pc EXCEPT ![w] = "stop_out"]
            /\ cause' = [cause EXCEPT ![w] = "ttl"]
            /\ ops' = ops
    /\ UNCHANGED <<lock, now, death_time, releases, signals, call, result>>

\* Where an exception raised inside the try block leaves the worker: the sleep
\* of line 53 after a clause that logs, stop() of line 54 after the break, or
\* out of run_forever (SystemExit ends the process quietly, anything else is an
\* unhandled error).
AfterRaise(e) ==
    CASE Handler(e) = "continue" -> "sleep"
      [] Handler(e) = "break" -> "stop_out"
      [] OTHER -> IF e = "SystemExit" THEN "terminated" ELSE "unhandled"

\* other_is_running, line 117: self.lock.is_locked() of "is_locked() and not i_am_locking()".
OirIsLocked(w) ==
    /\ pc[w] = "oir_locked"
    /\ pc' = [pc EXCEPT ![w] = IF is_locked(lock) THEN "oir_iam" ELSE "cr_locked"]
    /\ UNCHANGED <<lock, now, death_time, cause, ops, releases, signals, call, result>>

\* other_is_running, line 117: not self.lock.i_am_locking().
OirIAmLocking(w) ==
    /\ pc[w] = "oir_iam"
    /\ pc' = [pc EXCEPT ![w] = IF ~i_am_locking(lock, w) THEN "oir_expired" ELSE "cr_locked"]
    /\ UNCHANGED <<lock, now, death_time, cause, ops, releases, signals, call, result>>

\* expired(tolerance) that finds every lock of another holder stale.
ExpiredAnswersAlways(l, t) == {"expired"}

\* What expired(tolerance) may answer: the age test on a lock that exists; the
\* lock gone since line 117 is outside what the operation is defined for.
ExpiredAnswers(l, t) ==
    IF is_locked(l)
    THEN {IF expired(l, t) THEN "expired" ELSE "live"}
    ELSE {"expired", "live", "error"}

\* other_is_running, line 118, and what follows an answer: line 120, or
\* "return other" (True) and with it stop() at line 111.
OirExpired(w) ==
    /\ pc[w] = "oir_expired"
    /\ \E a \in ExpiredAnswers(lock, now) :
          CASE a = "expired" ->
                 /\ pc' = [pc EXCEPT ![w] = "oir_break"]
                 /\ UNCHANGED <<cause, ops>>
            [] a = "live" ->
                 /\ pc' = [pc EXCEPT ![w] = "stop_in"]
                 /\ cause' = [cause EXCEPT ![w] = "abdicate"]
                 /\ UNCHANGED ops
            [] OTHER ->
                 /\ pc' = [pc EXCEPT ![w] = AfterRaise("Exception")]
                 /\ ops' = [ops EXCEPT ![w] = @ \cup {"error"}]
                 /\ UNCHANGED cause
    /\ UNCHANGED <<lock, now, death_time, releases, signals, call, result>>

\* A break that ends the tick: the worker goes to the sleep of line 53.
AfterBreakEndsTick == "sleep"

\* Line 121 falling through to "return other": can_run calls stop().
AfterBreakReturnsOther == "stop_in"

\* other_is_running, line 121: "return False" after the break takes can_run to
\* the elif of line 112.
AfterBreak == "cr_locked"

\* other_is_running, lines 120-121: break_lock(), return False.
OirBreak(w) ==
    /\ pc[w] = "oir_break"
    /\ lock' = break_lock(lock)
    /\ ops' = [ops EXCEPT ![w] = @ \cup {"break"}]
    /\ pc' = [pc EXCEPT ![w] = AfterBreak]
    /\ UNCHANGED <<now, death_time, cause, releases, signals, call, result>>

\* can_run, line 112: elif not self.lock.is_locked().
CrIsLocked(w) ==
    /\ pc[w] = "cr_locked"
    /\ pc' = [pc EXCEPT ![w] = IF ~is_locked(lock) THEN "cr_acquire" ELSE "cr_iam"]
    /\ UNCHANGED <<lock, now, death_time, cause, ops, releases, signals, call, result>>

\* can_run, line 113: acquire(timeout) creates the lock.
AcquireSuccess(w) ==
    /\ pc[w] = "cr_acquire"
    /\ ~is_locked(lock)
    /\ lock' = acquired(w, now)
    /\ ops' = [ops EXCEPT ![w] = @ \cup {"acquire"}]
    /\ pc' = [pc EXCEPT ![w] = "cr_iam"]
    /\ UNCHANGED <<now, death_time, cause, releases, signals, call, result>>

\* can_run, line 113: acquire(timeout) gives up on a lock that stays taken.
AcquireTimeout(w) ==
    /\ pc[w] = "cr_acquire"
    /\ is_locked(lock)
    /\ ops' = [ops EXCEPT ![w] = @ \cup {"timeout"}]
    /\ pc' = [pc EXCEPT ![w] = AfterRaise("LockTimeout")]
    /\ UNCHANGED <<lock, now, death_time, cause, releases, signals, call, result>>

\* can_run returning True whatever the lock says.
can_run_always(l, w) == TRUE

\* can_run, line 114: return self.lock.i_am_locking().
can_run(l, w) == i_am_locking(l, w)

\* can_run, line 114, and the test of line 104.
CrIAmLocking(w) ==
    /\ pc[w] = "cr_iam"
    /\ pc' = [pc EXCEPT ![w] = IF can_run(lock, w) THEN "update" ELSE "sleep"]
    /\ UNCHANGED <<lock, now, death_time, cause, ops, releases, signals, call, result>>

\* What update_lock() may do: renew the holder's own claim; called by a worker
\* that is not the holder it is outside what the operation is defined for.
UpdateAnswers(l, w) ==
    IF i_am_locking(l, w) THEN {"renew"}
    ELSE IF is_locked(l) THEN {"renew", "nothing", "error"}
    ELSE {"nothing", "error"}

\* run_if_locking, line 105, and the call of run() at line 106.
UpdateLock(w) ==
    /\ pc[w] = "update"
    /\ \E a \in UpdateAnswers(lock, w) :
          CASE a = "renew" ->
                 /\ lock' = update_lock(lock, now)
                 /\ ops' = [ops EXCEPT ![w] = @ \cup {"update", "run"}]
                 /\ pc' = [pc EXCEPT ![w] = "run"]
            [] a = "nothing" ->
                 /\ lock' = lock
                 /\ ops' = [ops EXCEPT ![w] = @ \cup {"update", "run"}]
                 /\ pc' = [pc EXCEPT ![w] = "run"]
            [] OTHER ->
                 /\ lock' = lock
                 /\ ops' = [ops EXCEPT ![w] = @ \cup {"update", "error"}]
                 /\ pc' = [pc EXCEPT ![w] = AfterRaise("Exception")]
    /\ UNCHANGED <<now, death_time, cause, releases, signals, call, result>>

\* run(), lines 57-68: it returns, it raises, or it calls stop() at line 61.
\* ops records a catalog without any of the worker's streams ("absent").
Run(w) ==
    /\ pc[w] = "run"
    /\ \E playlists \in Catalogs, consumed \in BOOLEAN :
          LET worker_playlists == filter_playlists_for_worker(is_variant[w], playlists)
              seen == IF Unavailable(worker_playlists) THEN {"absent"} ELSE {}
          IN  IF "KeyError" \in DOMAIN worker_playlists
              THEN /\ pc' = [pc EXCEPT ![w] = AfterRaise("Exception")]
                   /\ ops' = [ops EXCEPT ![w] = @ \cup seen \cup {"error"}]
                   /\ UNCHANGED cause
              ELSE IF NotDict(worker_playlists)
              THEN /\ pc' = [pc EXCEPT ![w] = "stop_in"]
                   /\ cause' = [cause EXCEPT ![w] = "unavailable"]
                   /\ ops' = [ops EXCEPT ![w] = @ \cup seen]
              ELSE IF consumed
              THEN /\ pc' = [pc EXCEPT ![w] = "sleep"]
                   /\ ops' = [ops EXCEPT ![w] = @ \cup seen]
                   /\ UNCHANGED cause
              ELSE /\ pc' = [pc EXCEPT ![w] = AfterRaise("Exception")]
                   /\ ops' = [ops EXCEPT ![w] = @ \cup seen \cup {"error"}]
                   /\ UNCHANGED cause
    /\ UNCHANGED <<lock, now, death_time, releases, signals, call, result>>

\* time.sleep(0.1), line 53.
Sleep(w) ==
    /\ pc[w] = "sleep"
    /\ pc' = [pc EXCEPT ![w] = "loop"]
    /\ UNCHANGED <<lock, now, death_time, cause, ops, releases, signals, call, result>>

\* stop(), line 126: the try block.
Stop(w) ==
    /\ pc[w] \in StopPcs
    /\ lock' = release_if_locking(lock, w)
    /\ releases' = [releases EXCEPT ![w] = @ + 1]
    /\ pc' = [pc EXCEPT ![w] = IF pc[w] = "stop_in" THEN "exit_in" ELSE "exit_out"]
    /\ UNCHANGED <<now, death_time, cause, ops, signals, call, result>>

\* stop(), line 128: sys.exit(0) raises SystemExit, inside the try block of
\* run_forever or outside it.
Exit(w) ==
    /\ pc[w] \in {"exit_in", "exit_out"}
    /\ pc' = [pc EXCEPT ![w] = IF pc[w] = "exit_in" THEN AfterRaise("SystemExit")
                                                  ELSE "terminated"]
    /\ UNCHANGED <<lock, now, death_time, cause, ops, releases, signals, call, result>>

\* interrupted without line 89: the handler logs and returns.
InterruptedOnlyLogs(p) == p

\* A handler that leaves a run() in flight alone.
InterruptedSparesRun(p) ==
    IF p = "run" THEN p
    ELSE IF p \in TryPcs \cup {"stop_in", "exit_in"} THEN "stop_in" ELSE "stop_out"

\* Where the SIGTERM handler (interrupted, lines 87-89) starts stop(): inside the
\* try block or outside it, as the interrupted code is.
InterruptedAt(p) ==
    IF p \in TryPcs \cup {"stop_in", "exit_in"} THEN "stop_in" ELSE "stop_out"

\* SIGTERM reaches a worker that has registered its handler.
Sigterm(w) ==
    /\ signals < MaxSignals
    /\ signals' = signals + 1
    /\ pc[w] \notin {"init"} \cup DeadPcs
    /\ pc' = [pc EXCEPT ![w] = InterruptedAt(pc[w])]
    /\ cause' = [cause EXCEPT ![w] = "sigterm"]
    /\ UNCHANGED <<lock, now, death_time, ops, releases, call, result>>

\* Where a KeyboardInterrupt raised at position p leaves the worker: line 50
\* takes it inside the try block; in stop() the finally clause goes on to
\* sys.exit(0); nothing takes it at the while test or in the sleep.
AfterInterrupt(p) ==
    CASE p \in TryPcs \cup {"exit_in"} -> AfterRaise("KeyboardInterrupt")
      [] p = "stop_in" -> "exit_in"
      [] p = "stop_out" -> "exit_out"
      [] OTHER -> "unhandled"

\* SIGINT reaches a worker inside run_forever: KeyboardInterrupt.
Interrupt(w) ==
    /\ signals < MaxSignals
    /\ signals' = signals + 1
    /\ pc[w] \notin {"init"} \cup DeadPcs
    /\ pc' = [pc EXCEPT ![w] = AfterInterrupt(pc[w])]
    /\ cause' = [cause EXCEPT ![w] = "interrupt"]
    /\ UNCHANGED <<lock, now, death_time, ops, releases, call, result>>

\* The exit status of a process that has ended: 0 from sys.exit(0) of line 128,
\* 1 from an exception that nothing has caught.
exit_code(p) == IF p = "terminated" THEN 0 ELSE 1

\* One step of worker w's own code.
WorkerStep(w) ==
    \/ Setup(w)
    \/ LoopTest(w)
    \/ OirIsLocked(w)
    \/ OirIAmLocking(w)
    \/ OirExpired(w)
    \/ OirBreak(w)
    \/ CrIsLocked(w)
    \/ AcquireSuccess(w)
    \/ AcquireTimeout(w)
    \/ CrIAmLocking(w)
    \/ UpdateLock(w)
    \/ Run(w)
    \/ Sleep(w)
    \/ Stop(w)
    \/ Exit(w)

Next ==
    \/ Tick
    \/ \E w \in Workers : WorkerStep(w)
    \/ \E w \in Workers : Sigterm(w)
    \/ \E w \in Workers : Interrupt(w)

TypeOK ==
    /\ pc \in [Workers -> Pcs]
    /\ lock \in [holder : Holders, renewed : 0..MaxTime]
    /\ now \in 0..MaxTime
    /\ cause \in [Workers -> Causes]
    /\ ops \in [Workers -> SUBSET OpNames]
    /\ releases \in [Workers -> 0..(MaxSignals + 1)]
    /\ signals \in 0..MaxSignals
    /\ call = NoCall
    /\ result = NoResult

Spec == Init /\ [][Next]_vars

\* The workers left to themselves: no signal is delivered.
NextQuiet ==
    \/ Tick
    \/ \E w \in Workers : WorkerStep(w)

\* Every process keeps executing its own code: a blocked acquire returns or
\* times out, run() returns or raises.  Nothing is assumed of the clock.
QuietFairSpec ==
    Init /\ [][NextQuiet]_vars /\ \A w \in Workers : WF_vars(WorkerStep(w))

-----------------------------------------------------------------------------
(* filter_playlists_for_worker taken alone, on every catalog *)

\* The lists of at most n combine actions.
RECURSIVE ActionLists(_)
ActionLists(n) ==
    IF n = 0 THEN {<<>>}
    ELSE ActionLists(n - 1)
           \cup {Append(l, r) : l \in ActionLists(n - 1), r \in FilterRules}

FilterInit ==
    /\ pc = [w \in Workers |-> "init"]
    /\ lock = Free
    /\ now = 0
    /\ death_time = [w \in Workers |-> 0]
    /\ cause = [w \in Workers |-> "none"]
    /\ ops = [w \in Workers |-> {}]
    /\ releases = [w \in Workers |-> 0]
    /\ signals = 0
    /\ call \in [variant : BOOLEAN,
                 playlists : [streams : SUBSET FilterStreams,
                              actions : ActionLists(MaxActions)]]
    /\ result = NoResult

\* The call returns.
FilterCall ==
    /\ result = NoResult
    /\ result' = filter_playlists_for_worker(call.variant, call.playlists)
    /\ UNCHANGED <<pc, lock, now, death_time, cause, ops, releases, signals, call>>

FilterSpec == FilterInit /\ [][FilterCall]_vars

-----------------------------------------------------------------------------
(* Steps of a worker, as the claims speak of them *)

\* Worker w executes a step of its own code (no signal is delivered).
Steps(w) == pc'[w] # pc[w] /\ signals' = signals

\* Worker w executes break_lock() in this step.
Breaks(w) == "break" \notin ops[w] /\ "break" \in ops'[w]

\* acquire(timeout) raises LockTimeout in worker w in this step.
TimesOut(w) == "timeout" \notin ops[w] /\ "timeout" \in ops'[w]

\* An unexpected error is raised in worker w's tick in this step.
Fails(w) == "error" \notin ops[w] /\ "error" \in ops'[w]

\* Worker w has left the polling loop for stop().
ShuttingDown(w) == pc[w] \in StopPcs \cup {"exit_in", "exit_out"}

-----------------------------------------------------------------------------
\* C1 - Mutual exclusion: no two workers of one playlist are inside run() at
\* the same time, whatever the interleaving of their lock operations and
\* however long a holder's run() lasts.
MutualExclusion ==
    \A v, w \in Workers : (Running(v) /\ Running(w)) => v = w

\* C2 - Lease liveness: a claim renewed within the tolerance is never removed
\* by a contender; every claim that a break_lock() removes is another
\* holder's claim and is stale at that instant.
BreakOnlyStale ==
    [][\A w \in Workers :
          (Breaks(w) /\ is_locked(lock)) => /\ ~i_am_locking(lock, w)
                                            /\ expired(lock, now)]_vars

\* C3 - Stale reclamation: a worker that observes the stale claim of a dead
\* holder goes on to break it; the break frees the lock and does not end the
\* worker; and the worker then gets to run(), unless another contender gets
\* the lock or the worker's death_time ends its polling.
OtherWins(w) ==
    \E v \in Workers \ {w} : i_am_locking(lock, v)

StaleReclaimed ==
    /\ [][\A w \in Workers :
            /\ (Steps(w) /\ pc[w] = "oir_expired" /\ i_am_locking(lock, Ghost)
                  /\ expired(lock, now)) => pc'[w] = "oir_break"
            /\ Breaks(w) => (~is_locked(lock') /\ pc'[w] = "cr_locked")]_vars
    /\ \A w \in Workers :
          (pc[w] = "oir_break") ~> (Running(w) \/ OtherWins(w) \/ cause[w] # "none")

\* C3 witness: alone, a worker has broken the dead holder's claim, acquired
\* the lock in the same tick and is inside run().
StaleReclaimedWitness ==
    \E w \in Workers :
        /\ Running(w) /\ {"break", "acquire"} \subseteq ops[w]
        /\ \A v \in Workers \ {w} : pc[v] = "init"

\* C4 - Lease released on every shutdown path: no worker whose process has
\* ended is still recorded as the holder of the lock.
ReleasedOnShutdown ==
    \A w \in Workers : Dead(w) => ~i_am_locking(lock, w)

\* C5 - Release exactly once: a worker that has been told to terminate by
\* SIGTERM, at whatever point, and has exited has executed
\* release_if_locking() exactly once.
ReleaseExactlyOnce ==
    \A w \in Workers :
        (pc[w] = "terminated" /\ cause[w] = "sigterm") => releases[w] = 1

\* C6 - TTL self-termination: a loop test made at or after death_time ends the
\* loop for stop() and touches nothing; no tick begins at or after death_time;
\* and a worker whose death_time has passed gets to stop(), also from a tick
\* that is blocked inside acquire(timeout).
TTLSelfTermination ==
    /\ [][\A w \in Workers :
            /\ (Steps(w) /\ pc[w] = "loop" /\ now >= death_time[w])
                  => (pc'[w] = "stop_out" /\ cause'[w] = "ttl" /\ lock' = lock)
            /\ (pc[w] # "oir_locked" /\ pc'[w] = "oir_locked")
                  => now < death_time[w]]_vars
    /\ \A w \in Workers :
          (pc[w] \in LoopPcs \cup TryPcs /\ now >= death_time[w])
              ~> (ShuttingDown(w) \/ Dead(w))

\* C6 witness: a worker whose latest tick timed out inside acquire() has ended
\* its loop on the TTL, the lock still with another holder.
TTLSelfTerminationWitness ==
    \E w \in Workers :
        /\ pc[w] = "stop_out" /\ cause[w] = "ttl" /\ "timeout" \in ops[w]
        /\ is_locked(lock) /\ ~i_am_locking(lock, w)

\* C7 - Abdication: a worker that finds the lock held by another holder and not
\* expired calls stop(); from then on it is in stop() or terminated, and in
\* that tick it has called neither acquire nor update_lock nor run().
Abdication ==
    /\ [][\A w \in Workers :
            (Steps(w) /\ pc[w] = "oir_expired" /\ is_locked(lock)
               /\ ~i_am_locking(lock, w) /\ ~expired(lock, now))
              => (pc'[w] = "stop_in" /\ cause'[w] = "abdicate")]_vars
    /\ [](\A w \in Workers :
            cause[w] = "abdicate"
              => /\ pc[w] \in {"stop_in", "exit_in", "terminated"}
                 /\ ops[w] \cap {"acquire", "update", "run"} = {})

\* C7 witness: a worker has terminated on abdication and the other holder's
\* live claim is in place.
AbdicationWitness ==
    \E w \in Workers :
        /\ pc[w] = "terminated" /\ cause[w] = "abdicate"
        /\ is_locked(lock) /\ ~expired(lock, now)

\* C8 - Acquisition timeout is tick-local: the step in which acquire(timeout)
\* raises LockTimeout leaves the lock as it is and takes the worker to the
\* sleep; that tick has no update_lock and no run(); and the worker stays in
\* the polling loop, unless a signal or its TTL ends it.
TimeoutIsTickLocal ==
    /\ [][\A w \in Workers :
            TimesOut(w) => (lock' = lock /\ pc'[w] = "sleep" /\ cause'[w] = cause[w])]_vars
    /\ [](\A w \in Workers :
            "timeout" \in ops[w]
              => /\ ops[w] \cap {"update", "run"} = {}
                 /\ cause[w] = "none" => pc[w] \in LoopPcs)

\* C8 witness: after a tick that timed out the worker is back at the loop test,
\* its death_time still ahead.
TimeoutIsTickLocalWitness ==
    \E w \in Workers :
        pc[w] = "loop" /\ "timeout" \in ops[w] /\ now < death_time[w]

\* C9 - Catch-all recovery: the step in which an unexpected error is raised in
\* a tick takes the worker to the sleep; the worker stays in the polling loop,
\* unless a signal or its TTL ends it; no worker leaves the loop or dies
\* without a shutdown trigger.
CatchAllRecovery ==
    /\ [][\A w \in Workers :
            Fails(w) => (pc'[w] = "sleep" /\ cause'[w] = cause[w])]_vars
    /\ [](\A w \in Workers :
            /\ ("error" \in ops[w] /\ cause[w] = "none") => pc[w] \in LoopPcs
            /\ (Dead(w) \/ ShuttingDown(w)) => cause[w] # "none")

\* C9 witness: after a tick whose run() raised, the worker is back at the loop
\* test, its death_time still ahead.
CatchAllRecoveryWitness ==
    \E w \in Workers :
        pc[w] = "loop" /\ {"run", "error"} \subseteq ops[w] /\ now < death_time[w]

\* C10 - Nothing escapes the polling loop uncaught: no worker's process ends
\* with an unhandled exception, that is, without going through stop().
NothingEscapes ==
    \A w \in Workers : pc[w] # "unhandled"

\* SIGTERM is delivered to worker w in this step.
SigtermTo(w) ==
    /\ signals' # signals
    /\ cause'[w] = "sigterm"
    /\ pc'[w] # pc[w] \/ cause'[w] # cause[w]

\* C11 - Signal-driven shutdown from any state: a SIGTERM delivered to a worker
\* that has registered its handler, wherever the worker is, starts stop() at
\* once; from then on the worker is in stop() or terminated and is not the
\* holder once release_if_locking() has run; and it gets to terminate: its
\* next step is always possible, and takes it from stop() to sys.exit(0) and
\* from there out of the process.
SignalShutdown ==
    /\ [][\A w \in Workers :
            /\ SigtermTo(w) => (pc'[w] \in StopPcs /\ lock' = lock)
            /\ (Steps(w) /\ cause[w] = "sigterm" /\ pc[w] \in StopPcs)
                  => (pc'[w] \in {"exit_in", "exit_out"} /\ ~i_am_locking(lock', w))
            /\ (Steps(w) /\ cause[w] = "sigterm" /\ pc[w] \in {"exit_in", "exit_out"})
                  => pc'[w] = "terminated"]_vars
    /\ [](\A w \in Workers :
            cause[w] = "sigterm"
              => /\ ShuttingDown(w) \/ pc[w] = "terminated"
                 /\ pc[w] \notin StopPcs => ~i_am_locking(lock, w)
                 /\ pc[w] # "terminated" => ENABLED WorkerStep(w))

\* C11 witness: a worker that was inside run() as the holder has terminated on
\* SIGTERM and the lock is free.
SignalShutdownWitness ==
    \E w \in Workers :
        /\ pc[w] = "terminated" /\ cause[w] = "sigterm" /\ releases[w] = 1
        /\ "run" \in ops[w] /\ ~is_locked(lock)

\* C12 - Cooperative cancellation: a SIGTERM delivered to a worker that is
\* inside run() does not interrupt run(); the worker is still inside run()
\* after the delivery.
CooperativeCancellation ==
    [][\A w \in Workers : (Running(w) /\ SigtermTo(w)) => Running(w)']_vars

\* C12, amended - A SIGTERM delivered to a worker that is inside run() interrupts
\* run(): the handler starts stop() there and then, inside the try block, and
\* the worker neither resumes run() nor comes back to the loop.
SignalInterruptsRun ==
    /\ [][\A w \in Workers :
            (Running(w) /\ SigtermTo(w)) => pc'[w] = "stop_in"]_vars
    /\ [](\A w \in Workers :
            cause[w] = "sigterm" => (~Running(w) /\ pc[w] \notin LoopPcs \cup TryPcs))

\* C12 witness: stop() has been started by a SIGTERM that found the worker
\* inside run(), holding the lock.
SignalInterruptsRunWitness ==
    \E w \in Workers :
        /\ pc[w] = "stop_in" /\ cause[w] = "sigterm"
        /\ "run" \in ops[w] /\ i_am_locking(lock, w)

\* C13 - Composite filtering: for a composite worker the filter returns exactly
\* the streams that are in the catalog and are an input of some combine action
\* whose output is the worker's playlist, each once, whatever the catalog and
\* the list of combine actions.
CompositeFiltering ==
    ("pending" \notin DOMAIN result /\ call.variant)
      => LET streams == call.playlists.streams
             actions == call.playlists.actions
         IN  result = [streams |->
                         {s \in streams :
                            \E i \in DOMAIN actions :
                               /\ actions[i].output = playlist
                               /\ \E j \in DOMAIN actions[i].input :
                                     actions[i].input[j] = s}]

\* C13 witness: the catalog {A, B, C} with the one action X <- [A, D] has
\* given exactly {A}.
CompositeFilteringWitness ==
    /\ "pending" \notin DOMAIN result
    /\ call.variant
    /\ call.playlists.streams = {"A", "B", "C"}
    /\ call.playlists.actions = <<[output |-> "X", input |-> <<"A", "D">>]>>
    /\ result.streams = {"A"}

\* C14 - Uniform exit code: every worker process that has ended, on whatever
\* path, has ended with exit code 0.
UniformExitCode ==
    \A w \in Workers : Dead(w) => exit_code(pc[w]) = 0

RenewByHolder ==
    [][\A w \in Workers :
          (Steps(w) /\ pc[w] = "update") => i_am_locking(lock, w)]_vars

\* C17 - Execution is gated and ordered: a worker comes to update_lock() only
\* from can_run() having found it the holder, and to run() only from
\* update_lock() of the same tick; no tick has a run() without an
\* update_lock(); and once run() is entered the worker's own steps leave the
\* lock as it is until stop().
GatedAndOrdered ==
    /\ [][\A w \in Workers :
            /\ (pc[w] # "update" /\ pc'[w] = "update")
                  => (pc[w] = "cr_iam" /\ i_am_locking(lock, w))
            /\ (~Running(w) /\ Running(w)')
                  => (pc[w] = "update" /\ "update" \in ops'[w])
            /\ (Steps(w) /\ "run" \in ops[w] /\ pc[w] \notin StopPcs)
                  => lock' = lock]_vars
    /\ [](\A w \in Workers : "run" \in ops[w] => "update" \in ops[w])

\* C17 witness: a worker that held the lock from an earlier tick has renewed it
\* and is inside run().
GatedAndOrderedWitness ==
    \E w \in Workers :
        /\ Running(w) /\ i_am_locking(lock, w)
        /\ "update" \in ops[w] /\ "acquire" \notin ops[w]

\* C18 - Losers leave: when the workers start with the lock free and no claim
\* is ever let go stale, no worker is inside run() while another one holds the
\* lock, and a worker that polls while another one holds the lock terminates,
\* unless the holder gives its claim up first.
LosersLeave ==
    (lock = Free /\ [](is_locked(lock) => ~expired(lock, now)))
      => /\ [](\A v, w \in Workers :
                 (v # w /\ i_am_locking(lock, w)) => ~Running(v))
         /\ \A v, w \in Workers :
               (v # w /\ i_am_locking(lock, w) /\ pc[v] \in LoopPcs \cup TryPcs)
                 ~> (pc[v] = "terminated" \/ ~i_am_locking(lock, w))

\* C18 witness: the winner is inside run() on a lock it found free, its claim
\* live, and the other worker has terminated on abdication.
LosersLeaveWitness ==
    \E v, w \in Workers :
        /\ Running(w) /\ i_am_locking(lock, w) /\ ~expired(lock, now)
        /\ "acquire" \in ops[w] /\ "break" \notin ops[w]
        /\ pc[v] = "terminated" /\ cause[v] = "abdicate"

\* Worker w executes release_if_locking() in this step.
Releases(w) == releases'[w] # releases[w]

\* C19 - Shutdown by a non-holder leaves the lease unchanged: a stop() executed
\* by a worker that is not the recorded holder leaves the lock's holder and
\* renewal time as they are; a worker that has executed stop() is not the
\* holder, so that a second stop() leaves the lock as it is.
NonHolderStop ==
    /\ [][\A w \in Workers :
            (Releases(w) /\ ~i_am_locking(lock, w)) => lock' = lock]_vars
    /\ [](\A w \in Workers : releases[w] >= 1 => ~i_am_locking(lock, w))

\* C19 witness: a worker has executed stop() twice and the lock is with the
\* other worker.
NonHolderStopWitness ==
    \E v, w \in Workers :
        v # w /\ releases[w] = 2 /\ i_am_locking(lock, v)

\* C20 - Playlist no longer available: a run() that finds none of the worker's
\* streams in the discovered catalog calls stop().
UnavailableStops ==
    [][\A w \in Workers :
          ("absent" \notin ops[w] /\ "absent" \in ops'[w]) => pc'[w] = "stop_in"]_vars
====
